---- MODULE Spec2Model ----
(***************************************************************************)
(* A model of go-log: the AsyncWriter (async_writer.go: a bounded queue    *)
(* drained by one consumer goroutine, with non-blocking Write, Flush and   *)
(* Close) and the logger built on it (logger.go: level gate, routing,      *)
(* Fatal).  Every channel operation and every atomic load or store of the  *)
(* Go code is one step of the goroutine that performs it.                  *)
(***************************************************************************)
EXTENDS Integers, Sequences, FiniteSets, TLC

\* ------------------------------------------------------------------ bounds
\* Concurrent caller goroutines.
NumCallers == 2
\* Non-empty lines that callers hand to Write over a run.
MaxLines == 3
\* The size given to NewAsyncWriter (capacity of ch).
QueueCap == 2
\* Concurrent goroutines that call the logger.
NumLoggers == 1
\* Program locations that call the logger.
NumSites == 1
\* Init calls over a run, after the one that installed the first logger.
MaxInits == 2
\* Lines logged over a run in which Init or Flush of the package is called.
MaxGlobalLines == 2

Callers == 1..NumCallers
LogCallers == 1..NumLoggers
Lines == 1..MaxLines
Sites == 1..NumSites

\* The writers the loggers own: allFile's and, when the paths differ,
\* wfFile's, of the first logger and of each logger a later Init constructs.
Writers == 1..(2 * (MaxInits + 1))
\* The writer the AsyncWriter specifications exercise.
W1 == 1

\* make(chan bool, 1) for closing and flushed.
SignalCap == 1

VARIABLES
    ch,         \* ch[w]: the queue of writer w, a sequence of data (0 = nil)
    closing,    \* closing[w]: number of values buffered in the closing channel
    flushed,    \* flushed[w]: number of values buffered in the flushed channel
    done,       \* done[w]: the done channel has been closed
    closed,     \* closed[w]: the atomic closed flag (0 or 1)
    cpc,        \* cpc[w]: where the consumer goroutine flush() is
    cdata,      \* cdata[w]: the data the consumer holds (local variable data)
    sink,       \* sink[w]: what the underlying writer's Write was given, in order
    sinkCloses, \* sinkCloses[w]: number of calls of the underlying writer's Close
    size, sinkErr,       \* size[w]: the capacity of ch[w], fixed by NewAsyncWriter
    fr,         \* fr[p]: the frame of the AsyncWriter call goroutine p is in
    last,       \* the call that returned in the last step (NoCall if none did)
    enq,        \* enq[w]: the lines sent on ch[w], in send order (history)
    wres,       \* wres[w][d]: the outcome of the Write call that gave line d to writer w
    nextLine,   \* the next fresh line
    lg,         \* the logger defaultLoggerPtr points at
    term,       \* isStdoutTerminal and isStderrTerminal
    dev,        \* what os.Stdout and os.Stderr were given, in order
    lfr,        \* lfr[p]: the frame of the log call goroutine p is in
    llast,      \* the log call that ended in the last step (NoLog if none did)
    pcCache     \* pcCache[n][pc]: the stack cached by logger n for location pc

awVars == <<ch, closing, flushed, done, closed, cpc, cdata, sink, sinkCloses, size,
           sinkErr>>
callVars == <<fr, enq, wres>>
logVars == <<lg, term, dev, lfr, llast, pcCache>>
vars == <<ch, closing, flushed, done, closed, cpc, cdata, sink, sinkCloses, size, sinkErr,
          fr, last, enq, wres, nextLine, lg, term, dev, lfr, llast, pcCache>>

\* ----------------------------------------------------------------- helpers
Range(s) == {s[i] : i \in 1..Len(s)}

\* len(data): line d is a slice of d bytes, nil and the empty slice have 0.
LenOf(d) == d

IdleFrame == [pc |-> "idle", w |-> 0, data |-> 0, snap |-> {}, found |-> "none"]
NoCall == [op |-> "none", w |-> 0, err |-> "nil", written |-> 0, data |-> 0,
           snap |-> {}, found |-> "none"]

\* isClosed()
isClosed(w) == closed[w] # 0

\* ------------------------------------------------------------------- Write
\* A call returns: the frame is popped and the result recorded.
Return(p, op, err, written) ==
    /\ last' = [op |-> op, w |-> fr[p].w, err |-> err, written |-> written,
                data |-> fr[p].data, snap |-> fr[p].snap, found |-> fr[p].found]
    /\ fr' = [fr EXCEPT ![p] = IdleFrame]

\* Write up to the select: len(data) == 0 returns (0, nil); a set closed flag
\* returns errAsyncWriterClosed.
WriteCall(p, w, d) ==
    /\ fr[p].pc = "idle"
    /\ IF LenOf(d) = 0
       THEN /\ last' = [NoCall EXCEPT !.op = "Write", !.w = w]
            /\ UNCHANGED <<fr, wres>>
       ELSE IF isClosed(w)
       THEN /\ last' = [NoCall EXCEPT !.op = "Write", !.w = w, !.data = d, !.err = "closed"]
            /\ wres' = [wres EXCEPT ![w][d] = "closed"]
            /\ UNCHANGED fr
       ELSE /\ fr' = [fr EXCEPT ![p] = [IdleFrame EXCEPT !.pc = "w_select", !.w = w,
                                                        !.data = d]]
            /\ wres' = [wres EXCEPT ![w][d] = "pending"]
            /\ last' = NoCall
    /\ UNCHANGED <<awVars, enq>>

\* Variant of WriteSelect: the send without the default case, which waits for
\* room in the queue.
WriteSelectBlocking(p) ==
    /\ fr[p].pc = "w_select"
    /\ LET w == fr[p].w
           d == fr[p].data
       IN /\ Len(ch[w]) < size[w]
          /\ ch' = [ch EXCEPT ![w] = Append(@, d)]
          /\ enq' = [enq EXCEPT ![w] = Append(@, d)]
          /\ wres' = [wres EXCEPT ![w][d] = "ok"]
          /\ Return(p, "Write", "nil", LenOf(d))
    /\ UNCHANGED <<closing, flushed, done, closed, cpc, cdata, sink, sinkCloses, size, sinkErr>>

\* Variant of WriteSelect: a full queue gives up its oldest item to the new line.
WriteSelectOverwrite(p) ==
    /\ fr[p].pc = "w_select"
    /\ LET w == fr[p].w
           d == fr[p].data
       IN /\ ch' = [ch EXCEPT ![w] =
                      IF Len(@) < size[w] THEN Append(@, d) ELSE Append(Tail(@), d)]
          /\ enq' = [enq EXCEPT ![w] = Append(@, d)]
          /\ wres' = [wres EXCEPT ![w][d] = "ok"]
          /\ Return(p, "Write", "nil", LenOf(d))
    /\ UNCHANGED <<closing, flushed, done, closed, cpc, cdata, sink, sinkCloses, size, sinkErr>>

\* select { case w.ch <- data: written = len(data); default: err = full }
WriteSelect(p) ==
    /\ fr[p].pc = "w_select"
    /\ LET w == fr[p].w
           d == fr[p].data
       IN IF Len(ch[w]) < size[w]
          THEN /\ ch' = [ch EXCEPT ![w] = Append(@, d)]
               /\ enq' = [enq EXCEPT ![w] = Append(@, d)]
               /\ wres' = [wres EXCEPT ![w][d] = "ok"]
               /\ Return(p, "Write", "nil", LenOf(d))
          ELSE /\ wres' = [wres EXCEPT ![w][d] = "full"]
               /\ Return(p, "Write", "full", 0)
               /\ UNCHANGED <<ch, enq>>
    /\ UNCHANGED <<closing, flushed, done, closed, cpc, cdata, sink, sinkCloses, size, sinkErr>>

\* ------------------------------------------------------------------- Flush
\* The lines for which Write on w has returned success so far.
Accepted(w) == {d \in Lines : wres[w][d] = "ok"}

\* Flush up to the first select: a set closed flag returns errAsyncWriterClosed.
FlushCall(p, w) ==
    /\ fr[p].pc = "idle"
    /\ IF isClosed(w)
       THEN /\ last' = [NoCall EXCEPT !.op = "Flush", !.w = w, !.err = "closed",
                                   !.snap = Accepted(w)]
            /\ UNCHANGED fr
       ELSE /\ fr' = [fr EXCEPT ![p] = [IdleFrame EXCEPT !.pc = "f_enq", !.w = w,
                                                        !.snap = Accepted(w)]]
            /\ last' = NoCall
    /\ UNCHANGED <<awVars, enq, wres>>

\* select { case w.ch <- nil: ; case <-w.done: return errAsyncWriterClosed }
FlushEnq(p) ==
    /\ fr[p].pc = "f_enq"
    /\ LET w == fr[p].w
       IN \/ /\ Len(ch[w]) < size[w]
             /\ ch' = [ch EXCEPT ![w] = Append(@, 0)]
             /\ fr' = [fr EXCEPT ![p].pc = "f_check"]
             /\ last' = NoCall
          \/ /\ done[w]
             /\ Return(p, "Flush", "closed", 0)
             /\ UNCHANGED ch
    /\ UNCHANGED <<closing, flushed, done, closed, cpc, cdata, sink, sinkCloses,
                   size, sinkErr, enq, wres>>

\* Variant of FlushCheck: a set closed flag after the send returns the error.
FlushCheckError(p) ==
    /\ fr[p].pc = "f_check"
    /\ IF isClosed(fr[p].w)
       THEN Return(p, "Flush", "closed", 0)
       ELSE /\ fr' = [fr EXCEPT ![p].pc = "f_wait"]
            /\ last' = NoCall
    /\ UNCHANGED <<awVars, enq, wres>>

\* if w.isClosed() { return nil }
FlushCheck(p) ==
    /\ fr[p].pc = "f_check"
    /\ IF isClosed(fr[p].w)
       THEN Return(p, "Flush", "nil", 0)
       ELSE /\ fr' = [fr EXCEPT ![p].pc = "f_wait"]
            /\ last' = NoCall
    /\ UNCHANGED <<awVars, enq, wres>>

\* Variant of FlushWait: the wait on flushed alone, without the done case.
FlushWaitNoDone(p) ==
    /\ fr[p].pc = "f_wait"
    /\ flushed[fr[p].w] > 0
    /\ flushed' = [flushed EXCEPT ![fr[p].w] = @ - 1]
    /\ Return(p, "Flush", "nil", 0)
    /\ UNCHANGED <<ch, closing, done, closed, cpc, cdata, sink, sinkCloses,
                   size, sinkErr, enq, wres>>

\* select { case <-w.flushed: ; case <-w.done: } return nil
FlushWait(p) ==
    /\ fr[p].pc = "f_wait"
    /\ LET w == fr[p].w
       IN \/ /\ flushed[w] > 0
             /\ flushed' = [flushed EXCEPT ![w] = @ - 1]
          \/ /\ done[w]
             /\ UNCHANGED flushed
    /\ Return(p, "Flush", "nil", 0)
    /\ UNCHANGED <<ch, closing, done, closed, cpc, cdata, sink, sinkCloses,
                   size, sinkErr, enq, wres>>

\* ------------------------------------------------------------------- Close
\* The state of the writer: Open until a close signal is sent, Closing until
\* the consumer has set the closed flag, Closed from then on.
WriterState(w) ==
    IF closed[w] # 0 THEN "closed"
    ELSE IF closing[w] > 0 \/ cpc[w] = "set_closed" THEN "closing"
    ELSE "open"

\* The lines in the queue.
Queued(w) == {d \in Range(ch[w]) : LenOf(d) > 0}

\* Variant of CloseCall: Close without the isClosed check.
CloseCallNoCheck(p, w) ==
    /\ fr[p].pc = "idle"
    /\ fr' = [fr EXCEPT ![p] = [IdleFrame EXCEPT !.pc = "c_signal", !.w = w,
                                                 !.snap = Queued(w),
                                                 !.found = WriterState(w)]]
    /\ last' = NoCall
    /\ UNCHANGED <<awVars, enq, wres>>

\* Close up to the first select: a set closed flag returns nil.
CloseCall(p, w) ==
    /\ fr[p].pc = "idle"
    /\ IF isClosed(w)
       THEN /\ last' = [NoCall EXCEPT !.op = "Close", !.w = w, !.snap = Queued(w),
                                   !.found = WriterState(w)]
            /\ UNCHANGED fr
       ELSE /\ fr' = [fr EXCEPT ![p] = [IdleFrame EXCEPT !.pc = "c_signal", !.w = w,
                                                        !.snap = Queued(w),
                                                        !.found = WriterState(w)]]
            /\ last' = NoCall
    /\ UNCHANGED <<awVars, enq, wres>>

\* select { case w.closing <- true: ; case <-w.done: return nil }
CloseSignal(p) ==
    /\ fr[p].pc = "c_signal"
    /\ LET w == fr[p].w
       IN \/ /\ closing[w] < SignalCap
             /\ closing' = [closing EXCEPT ![w] = @ + 1]
             /\ fr' = [fr EXCEPT ![p].pc = "c_wait"]
             /\ last' = NoCall
          \/ /\ done[w]
             /\ Return(p, "Close", "nil", 0)
             /\ UNCHANGED closing
    /\ UNCHANGED <<ch, flushed, done, closed, cpc, cdata, sink, sinkCloses,
                   size, sinkErr, enq, wres>>

\* select { case <-w.done: } return nil
CloseWait(p) ==
    /\ fr[p].pc = "c_wait"
    /\ done[fr[p].w]
    /\ Return(p, "Close", "nil", 0)
    /\ UNCHANGED <<awVars, enq, wres>>

\* ------------------------------------------------------- flush, the consumer
\* case data := <-w.ch of the outer select
ConsRecv(w) ==
    /\ cpc[w] = "loop"
    /\ Len(ch[w]) > 0
    /\ ch' = [ch EXCEPT ![w] = Tail(@)]
    /\ IF LenOf(Head(ch[w])) = 0
       THEN /\ cpc' = [cpc EXCEPT ![w] = "send_flushed"]
            /\ UNCHANGED cdata
       ELSE /\ cpc' = [cpc EXCEPT ![w] = "write"]
            /\ cdata' = [cdata EXCEPT ![w] = Head(ch[w])]
    /\ UNCHANGED <<closing, flushed, done, closed, sink, sinkCloses, size, sinkErr, callVars>>
    /\ last' = NoCall

\* w.flushed <- true; continue
ConsSendFlushed(w) ==
    /\ cpc[w] = "send_flushed"
    /\ flushed[w] < SignalCap
    /\ flushed' = [flushed EXCEPT ![w] = @ + 1]
    /\ cpc' = [cpc EXCEPT ![w] = "loop"]
    /\ UNCHANGED <<ch, closing, done, closed, cdata, sink, sinkCloses, size, sinkErr, callVars>>
    /\ last' = NoCall

\* w.writer.Write(data) of the outer loop
ConsWrite(w) ==
    /\ cpc[w] = "write"
    /\ sink' = [sink EXCEPT ![w] = Append(@, cdata[w])]
    /\ cdata' = [cdata EXCEPT ![w] = 0]
    /\ cpc' = [cpc EXCEPT ![w] = "loop"]
    /\ UNCHANGED <<ch, closing, flushed, done, closed, sinkCloses, size, sinkErr, callVars>>
    /\ last' = NoCall

\* case <-w.closing of the outer select
ConsClosing(w) ==
    /\ cpc[w] = "loop"
    /\ closing[w] > 0
    /\ closing' = [closing EXCEPT ![w] = @ - 1]
    /\ cpc' = [cpc EXCEPT ![w] = "set_closed"]
    /\ UNCHANGED <<ch, flushed, done, closed, cdata, sink, sinkCloses, size, sinkErr, callVars>>
    /\ last' = NoCall

\* atomic.StoreInt32(&w.closed, 1)
ConsSetClosed(w) ==
    /\ cpc[w] = "set_closed"
    /\ closed' = [closed EXCEPT ![w] = 1]
    /\ cpc' = [cpc EXCEPT ![w] = "drain"]
    /\ UNCHANGED <<ch, closing, flushed, done, cdata, sink, sinkCloses, size, sinkErr, callVars>>
    /\ last' = NoCall

\* Variant of ConsDrain: the drain pass takes the newest item first.
ConsDrainNewestFirst(w) ==
    /\ cpc[w] = "drain"
    /\ IF Len(ch[w]) > 0
       THEN /\ ch' = [ch EXCEPT ![w] = SubSeq(@, 1, Len(@) - 1)]
            /\ IF LenOf(ch[w][Len(ch[w])]) = 0
               THEN UNCHANGED <<cpc, cdata>>
               ELSE /\ cpc' = [cpc EXCEPT ![w] = "drain_write"]
                    /\ cdata' = [cdata EXCEPT ![w] = ch[w][Len(ch[w])]]
       ELSE /\ cpc' = [cpc EXCEPT ![w] = "close_sink"]
            /\ UNCHANGED <<ch, cdata>>
    /\ UNCHANGED <<closing, flushed, done, closed, sink, sinkCloses, size, sinkErr, callVars>>
    /\ last' = NoCall

\* Variant of ConsDrain: a close signal aborts, the queue is not drained.
ConsDrainAbort(w) ==
    /\ cpc[w] = "drain"
    /\ cpc' = [cpc EXCEPT ![w] = "close_sink"]
    /\ UNCHANGED <<ch, cdata>>
    /\ UNCHANGED <<closing, flushed, done, closed, sink, sinkCloses, size, sinkErr, callVars>>
    /\ last' = NoCall

\* Variant of ConsDrain: the drain pass does not skip a nil item.
ConsDrainKeepsNil(w) ==
    /\ cpc[w] = "drain"
    /\ IF Len(ch[w]) > 0
       THEN /\ ch' = [ch EXCEPT ![w] = Tail(@)]
            /\ cpc' = [cpc EXCEPT ![w] = "drain_write"]
            /\ cdata' = [cdata EXCEPT ![w] = Head(ch[w])]
       ELSE /\ cpc' = [cpc EXCEPT ![w] = "close_sink"]
            /\ UNCHANGED <<ch, cdata>>
    /\ UNCHANGED <<closing, flushed, done, closed, sink, sinkCloses, size, sinkErr, callVars>>
    /\ last' = NoCall

\* the inner select: case data := <-w.ch (nil is skipped), default
ConsDrain(w) ==
    /\ cpc[w] = "drain"
    /\ IF Len(ch[w]) > 0
       THEN /\ ch' = [ch EXCEPT ![w] = Tail(@)]
            /\ IF LenOf(Head(ch[w])) = 0
               THEN UNCHANGED <<cpc, cdata>>
               ELSE /\ cpc' = [cpc EXCEPT ![w] = "drain_write"]
                    /\ cdata' = [cdata EXCEPT ![w] = Head(ch[w])]
       ELSE /\ cpc' = [cpc EXCEPT ![w] = "close_sink"]
            /\ UNCHANGED <<ch, cdata>>
    /\ UNCHANGED <<closing, flushed, done, closed, sink, sinkCloses, size, sinkErr, callVars>>
    /\ last' = NoCall

\* w.writer.Write(data) of the inner loop
ConsDrainWrite(w) ==
    /\ cpc[w] = "drain_write"
    /\ sink' = [sink EXCEPT ![w] = Append(@, cdata[w])]
    /\ cdata' = [cdata EXCEPT ![w] = 0]
    /\ cpc' = [cpc EXCEPT ![w] = "drain"]
    /\ UNCHANGED <<ch, closing, flushed, done, closed, sinkCloses, size, sinkErr, callVars>>
    /\ last' = NoCall

\* w.writer.Close(): the underlying writer returns nil or an error, and the
\* statement drops what it returns.
ConsCloseSink(w) ==
    /\ cpc[w] = "close_sink"
    /\ sinkCloses' = [sinkCloses EXCEPT ![w] = @ + 1]
    /\ \E e \in {"nil", "error"} : sinkErr' = [sinkErr EXCEPT ![w] = e]
    /\ cpc' = [cpc EXCEPT ![w] = "close_done"]
    /\ UNCHANGED <<ch, closing, flushed, done, closed, cdata, sink, size, callVars>>
    /\ last' = NoCall

\* close(w.done); return
ConsCloseDone(w) ==
    /\ cpc[w] = "close_done"
    /\ done' = [done EXCEPT ![w] = TRUE]
    /\ cpc' = [cpc EXCEPT ![w] = "exited"]
    /\ UNCHANGED <<ch, closing, flushed, closed, cdata, sink, sinkCloses, size, sinkErr, callVars>>
    /\ last' = NoCall

Consumer(w) ==
    \/ ConsRecv(w)
    \/ ConsSendFlushed(w)
    \/ ConsWrite(w)
    \/ ConsClosing(w)
    \/ ConsSetClosed(w)
    \/ ConsDrain(w)
    \/ ConsDrainWrite(w)
    \/ ConsCloseSink(w)
    \/ ConsCloseDone(w)

\* ------------------------------------------------------------------ levels
LogFatal == 1
LogError == 2
LogWarn == 4
LogTrace == 8
LogInfo == 16
LogDebug == 32
logMax == LogDebug + 1
logPrint == 0

\* The levels of Fatalf .. Debugf, and those with Printf's.
Severities == {LogFatal, LogError, LogWarn, LogTrace, LogInfo, LogDebug}
LogLevels == Severities \cup {logPrint}

\* strings.ToLower on the level names the configurations of the model use.
ToLower(str) ==
    CASE str = "DEBUG" -> "debug"
      [] str = "WARN" -> "warn"
      [] str = "Error" -> "error"
      [] OTHER -> str

parseLevel(level) ==
    LET l == ToLower(level)
    IN CASE l = "debug" -> LogDebug
         [] l = "info" -> LogInfo
         [] l = "trace" -> LogTrace
         [] l \in {"warn", "warning"} -> LogWarn
         [] l = "error" -> LogError
         [] l = "fatal" -> LogFatal
         [] OTHER -> LogDebug

\* ------------------------------------------------------------------ config
DefaultLogPath == "./log/all.log"
DefaultLogLevel == "info"
DefaultErrorLogPath == "./log/error.log"
DefaultErrorLogLevel == "warn"
DefaultBufferedLines == 262144

\* Package paths and function names are sequences of tokens, "/" being one.
\* reflect.TypeOf(Config{}).PkgPath()
PkgPath == <<"github.com", "/", "altstory", "/", "go-log">>

\* strings.LastIndex(s, c) as a position from 1, 0 if c is not in s.
LastIndex(s, c) ==
    IF \E i \in 1..Len(s) : s[i] = c
    THEN CHOOSE i \in 1..Len(s) : s[i] = c /\ \A j \in (i + 1)..Len(s) : s[j] # c
    ELSE 0

\* strings.HasPrefix
HasPrefix(s, prefix) == Len(prefix) <= Len(s) /\ SubSeq(s, 1, Len(prefix)) = prefix

\* init(): the package path up to, and without, its last "/".
stdPackagePrefix ==
    IF LastIndex(PkgPath, "/") >= 1
    THEN SubSeq(PkgPath, 1, LastIndex(PkgPath, "/") - 1)
    ELSE PkgPath

replaceStdPackagePrefix == <<"<std>">>

\* A nil *Config.
NilConfig ==
    [isNil |-> TRUE, LogPath |-> "", LogLevel |-> "", ErrorLogPath |-> "",
     ErrorLogLevel |-> "", BufferedLines |-> 0, PackagePrefix |-> <<>>]

\* The level names configurations give: every name parseLevel knows, in
\* several capitalisations, the empty string and an unknown name.
LevelNames ==
    {"", "debug", "DEBUG", "trace", "WARN", "warning", "Error", "fatal", "verbose"}

\* The sinks of a logger: an AsyncWriter, or os.Stdout / os.Stderr behind a
\* dummyCloser.
AsyncSink(w) == [kind |-> "async", w |-> w]
StdoutSink == [kind |-> "stdout", w |-> 0]
StderrSink == [kind |-> "stderr", w |-> 0]

\* newLogger: the logger a configuration gives.  Its AsyncWriters are
\* writer 1 for allFile and, if the paths differ, writer 2 for wfFile.
newLogger(config) ==
    IF config.isNil
    THEN [maxLevel |-> logMax, errorLevel |-> 0, all |-> StdoutSink,
          wf |-> StderrSink, writers |-> <<>>, bufferedLines |-> 0,
          pkgPrefix |-> <<>>, id |-> 0]
    ELSE LET logPath == IF config.LogPath = "" THEN DefaultLogPath ELSE config.LogPath
             logLevelString ==
                 IF config.LogLevel = "" THEN DefaultLogLevel ELSE config.LogLevel
             errorLogPath ==
                 IF config.ErrorLogPath = "" THEN DefaultErrorLogPath
                 ELSE config.ErrorLogPath
             errorLogLevelString ==
                 IF config.ErrorLogLevel = "" THEN DefaultErrorLogLevel
                 ELSE config.ErrorLogLevel
             bufferedLines ==
                 IF config.BufferedLines <= 0 THEN DefaultBufferedLines
                 ELSE config.BufferedLines
             idx == LastIndex(config.PackagePrefix, "/")
             pkgPrefix ==
                 IF config.PackagePrefix # <<>> /\ idx >= 1
                 THEN SubSeq(config.PackagePrefix, 1, idx)
                 ELSE config.PackagePrefix
         IN [maxLevel |-> parseLevel(logLevelString),
             errorLevel |-> parseLevel(errorLogLevelString),
             all |-> AsyncSink(1),
             wf |-> IF errorLogPath # logPath THEN AsyncSink(2) ELSE AsyncSink(1),
             writers |-> IF errorLogPath # logPath THEN <<1, 2>> ELSE <<1>>,
             bufferedLines |-> bufferedLines,
             pkgPrefix |-> pkgPrefix,
             id |-> 1]

\* The n-th logger that Init constructs: newLogger's result with the fresh
\* AsyncWriters it allocates, writers 2n-1 and 2n.
NewAt(l, n) ==
    LET at(k) == 2 * (n - 1) + k
    IN [l EXCEPT !.id = n,
                 !.all = IF @.kind = "async" THEN AsyncSink(at(@.w)) ELSE @,
                 !.wf = IF @.kind = "async" THEN AsyncSink(at(@.w)) ELSE @,
                 !.writers = [k \in 1..Len(@) |-> at(@[k])]]

\* ------------------------------------------------------------------ parsePC
\* The program locations that call the logger: runtime.FuncForPC(pc).Name(),
\* and path.Base of the file and the line of FileLine(pc).
FuncName(pc) == IF pc % 2 = 1 THEN PkgPath \o <<".doLog">> ELSE <<"main", ".run">>
FileOf(pc) == IF pc % 2 = 1 THEN "logger_test.go" ELSE "main.go"
LineOf(pc) == 14 + pc

\* The zero value of stack.
NoStack == [line |-> <<>>, panicContext |-> <<>>]

\* parsePC of a logger with package prefix pkgPrefix.
parsePC(pc, pkgPrefix) ==
    LET full == FuncName(pc)
        name == IF pkgPrefix # <<>> /\ HasPrefix(full, pkgPrefix)
                THEN SubSeq(full, Len(pkgPrefix) + 1, Len(full))
                ELSE IF stdPackagePrefix # <<>> /\ HasPrefix(full, stdPackagePrefix)
                THEN SubSeq(full, Len(stdPackagePrefix) + 1, Len(full))
                ELSE full
        prefix == IF pkgPrefix # <<>> /\ HasPrefix(full, pkgPrefix)
                  THEN <<>>
                  ELSE IF stdPackagePrefix # <<>> /\ HasPrefix(full, stdPackagePrefix)
                  THEN replaceStdPackagePrefix
                  ELSE <<>>
    IN [line |-> <<"[", FileOf(pc), ":", LineOf(pc), "@">> \o prefix \o name \o <<"]">>,
        panicContext |-> <<"go-log: log.Fatalf at ", FileOf(pc), ":", LineOf(pc), "@">>
                             \o prefix \o name]

\* --------------------------------------------------------------- logger.log
\* The frame of a call of the package: the logger it loaded (l), and for log
\* the level, the line, the program location and its stack.
IdleLog ==
    [pc |-> "idle", level |-> 0, line |-> 0, fidx |-> 0, l |-> newLogger(NilConfig),
     site |-> 0, st |-> NoStack, snap |-> {}]
NoLog == [op |-> "none", level |-> 0, line |-> 0]

\* What a step of log leaves alone unless it says otherwise.
writerVars == <<ch, closing, flushed, done, closed, cpc, cdata, sink, sinkCloses,
                size, sinkErr, fr, enq, wres>>

\* Write on one of the logger's sinks.
SinkWrite(p, s, d) ==
    IF s.kind = "async"
    THEN WriteCall(p, s.w, d) /\ UNCHANGED dev
    ELSE /\ dev' = [dev EXCEPT ![s.kind] = Append(@, d)]
         /\ last' = NoCall
         /\ UNCHANGED writerVars

\* Variant of LogGate: the gate also rejects a record at the threshold itself.
LogGateExclusive(p, level) ==
    /\ lfr[p].pc = "idle"
    /\ fr[p].pc = "idle"
    /\ IF lg.maxLevel <= level
       THEN /\ llast' = [op |-> "reject", level |-> level, line |-> 0]
            /\ UNCHANGED <<lfr, nextLine>>
       ELSE /\ nextLine <= MaxLines
            /\ \E site \in IF level = logPrint THEN {0} ELSE Sites :
                  lfr' = [lfr EXCEPT ![p] =
                            [IdleLog EXCEPT !.pc = IF level = logPrint THEN "write_all"
                                                   ELSE "load",
                                            !.level = level, !.line = nextLine,
                                            !.l = lg, !.site = site]]
            /\ nextLine' = nextLine + 1
            /\ llast' = NoLog
    /\ last' = NoCall
    /\ UNCHANGED <<writerVars, lg, term, dev, pcCache>>

\* Debugf .. Printf up to the stack: defaultLogger() loads the pointer, log
\* applies the level gate, and for a level other than Printf's
\* runtime.Caller gives the program location.
LogGate(p, level) ==
    /\ lfr[p].pc = "idle"
    /\ fr[p].pc = "idle"
    /\ IF lg.maxLevel < level
       THEN /\ llast' = [op |-> "reject", level |-> level, line |-> 0]
            /\ UNCHANGED <<lfr, nextLine>>
       ELSE /\ nextLine <= MaxLines
            /\ \E site \in IF level = logPrint THEN {0} ELSE Sites :
                  lfr' = [lfr EXCEPT ![p] =
                            [IdleLog EXCEPT !.pc = IF level = logPrint THEN "write_all"
                                                   ELSE "load",
                                            !.level = level, !.line = nextLine,
                                            !.l = lg, !.site = site]]
            /\ nextLine' = nextLine + 1
            /\ llast' = NoLog
    /\ last' = NoCall
    /\ UNCHANGED <<writerVars, lg, term, dev, pcCache>>

\* Variant of LogCacheLoad: on a miss the stack also depends on the goroutine
\* that computes it.
LogCacheLoadPerCaller(p) ==
    /\ lfr[p].pc = "load"
    /\ LET cache == pcCache[lfr[p].l.id][lfr[p].site]
       IN IF cache # NoStack
          THEN lfr' = [lfr EXCEPT ![p].pc = "write_all", ![p].st = cache]
          ELSE lfr' = [lfr EXCEPT ![p].pc = "store",
                                  ![p].st = [parsePC(lfr[p].site, lfr[p].l.pkgPrefix)
                                                EXCEPT !.panicContext = <<p>>]]
    /\ llast' = NoLog
    /\ last' = NoCall
    /\ UNCHANGED <<writerVars, nextLine, lg, term, dev, pcCache>>

\* l.pcCache.Load(pc): a hit gives the cached stack, a miss computes it with
\* parsePC.
LogCacheLoad(p) ==
    /\ lfr[p].pc = "load"
    /\ LET cache == pcCache[lfr[p].l.id][lfr[p].site]
       IN IF cache # NoStack
          THEN lfr' = [lfr EXCEPT ![p].pc = "write_all", ![p].st = cache]
          ELSE lfr' = [lfr EXCEPT ![p].pc = "store",
                                  ![p].st = parsePC(lfr[p].site, lfr[p].l.pkgPrefix)]
    /\ llast' = NoLog
    /\ last' = NoCall
    /\ UNCHANGED <<writerVars, nextLine, lg, term, dev, pcCache>>

\* l.pcCache.Store(pc, st)
LogCacheStore(p) ==
    /\ lfr[p].pc = "store"
    /\ pcCache' = [pcCache EXCEPT ![lfr[p].l.id][lfr[p].site] = lfr[p].st]
    /\ lfr' = [lfr EXCEPT ![p].pc = "write_all"]
    /\ llast' = NoLog
    /\ last' = NoCall
    /\ UNCHANGED <<writerVars, nextLine, lg, term, dev>>

\* Variant of LogWriteAll: the routing without the exemption of Printf's level.
LogWriteAllNoExemption(p) ==
    /\ lfr[p].pc = "write_all"
    /\ SinkWrite(p, lfr[p].l.all, lfr[p].line)
    /\ lfr' = [lfr EXCEPT ![p].pc =
                 IF lfr[p].level > lfr[p].l.errorLevel
                 THEN "mirror_out"
                 ELSE IF lfr[p].l.wf # lfr[p].l.all THEN "write_wf" ELSE "mirror_err"]
    /\ llast' = NoLog
    /\ UNCHANGED <<nextLine, lg, term, pcCache>>

\* Variant of LogWriteAll: the error branch writes on wfLogger without
\* comparing it with allLogger.
LogWriteAllNoAliasTest(p) ==
    /\ lfr[p].pc = "write_all"
    /\ SinkWrite(p, lfr[p].l.all, lfr[p].line)
    /\ lfr' = [lfr EXCEPT ![p].pc =
                 IF lfr[p].level > lfr[p].l.errorLevel \/ lfr[p].level = logPrint
                 THEN "mirror_out"
                 ELSE "write_wf"]
    /\ llast' = NoLog
    /\ UNCHANGED <<nextLine, lg, term, pcCache>>

\* l.allLogger.Write(line), in either branch of the routing
LogWriteAll(p) ==
    /\ lfr[p].pc = "write_all"
    /\ SinkWrite(p, lfr[p].l.all, lfr[p].line)
    /\ lfr' = [lfr EXCEPT ![p].pc =
                 IF lfr[p].level > lfr[p].l.errorLevel \/ lfr[p].level = logPrint
                 THEN "mirror_out"
                 ELSE IF lfr[p].l.wf # lfr[p].l.all THEN "write_wf" ELSE "mirror_err"]
    /\ llast' = NoLog
    /\ UNCHANGED <<nextLine, lg, term, pcCache>>

\* l.wfLogger.Write(line)
LogWriteWf(p) ==
    /\ lfr[p].pc = "write_wf"
    /\ fr[p].pc = "idle"
    /\ SinkWrite(p, lfr[p].l.wf, lfr[p].line)
    /\ lfr' = [lfr EXCEPT ![p].pc = "mirror_err"]
    /\ llast' = NoLog
    /\ UNCHANGED <<nextLine, lg, term, pcCache>>

\* The mirror on the terminal, then: a level other than Fatal returns, Fatal
\* goes on to l.Flush().
LogMirror(p) ==
    /\ lfr[p].pc \in {"mirror_out", "mirror_err"}
    /\ fr[p].pc = "idle"
    /\ LET stream == IF lfr[p].pc = "mirror_out" THEN "stdout" ELSE "stderr"
       IN dev' = IF term[stream] THEN [dev EXCEPT ![stream] = Append(@, lfr[p].line)]
                 ELSE dev
    /\ IF lfr[p].level = LogFatal
       THEN /\ lfr' = [lfr EXCEPT ![p].pc = "flush", ![p].fidx = 1]
            /\ llast' = NoLog
       ELSE /\ lfr' = [lfr EXCEPT ![p] = IdleLog]
            /\ llast' = [op |-> "done", level |-> lfr[p].level, line |-> lfr[p].line]
    /\ last' = NoCall
    /\ UNCHANGED <<writerVars, nextLine, lg, term, pcCache>>

\* logger.Flush: w.Flush() on each of l.writers in turn
LogFlush(p) ==
    /\ lfr[p].pc \in {"flush", "gflush"}
    /\ fr[p].pc = "idle"
    /\ lfr[p].fidx <= Len(lfr[p].l.writers)
    /\ FlushCall(p, lfr[p].l.writers[lfr[p].fidx])
    /\ lfr' = [lfr EXCEPT ![p].fidx = @ + 1]
    /\ llast' = NoLog
    /\ UNCHANGED <<nextLine, lg, term, dev, pcCache>>

\* panic(panicContext), once l.Flush() has returned
LogPanic(p) ==
    /\ lfr[p].pc = "flush"
    /\ fr[p].pc = "idle"
    /\ lfr[p].fidx > Len(lfr[p].l.writers)
    /\ lfr' = [lfr EXCEPT ![p] = IdleLog]
    /\ llast' = [op |-> "panic", level |-> lfr[p].level, line |-> lfr[p].line]
    /\ last' = NoCall
    /\ UNCHANGED <<writerVars, nextLine, lg, term, dev, pcCache>>

\* ------------------------------------------------------ Flush of the package
\* Flush(): defaultLogger() loads the pointer, then logger.Flush runs.
GlobalFlushCall(p) ==
    /\ lfr[p].pc = "idle"
    /\ fr[p].pc = "idle"
    /\ lfr' = [lfr EXCEPT ![p] = [IdleLog EXCEPT !.pc = "gflush", !.fidx = 1, !.l = lg]]
    /\ llast' = NoLog
    /\ last' = NoCall
    /\ UNCHANGED <<writerVars, nextLine, lg, term, dev, pcCache>>

\* logger.Flush returns, all of l.writers flushed.
GlobalFlushReturn(p) ==
    /\ lfr[p].pc = "gflush"
    /\ fr[p].pc = "idle"
    /\ lfr[p].fidx > Len(lfr[p].l.writers)
    /\ lfr' = [lfr EXCEPT ![p] = IdleLog]
    /\ llast' = [op |-> "Flush", level |-> 0, line |-> 0]
    /\ last' = NoCall
    /\ UNCHANGED <<writerVars, nextLine, lg, term, dev, pcCache>>

\* --------------------------------------------------------------------- Init
\* The lines sent so far on the queues of the writers of logger l, each with
\* its writer.
EnqueuedIn(l) == {<<w, d>> \in Range(l.writers) \X Lines : d \in Range(enq[w])}

\* Variant of InitSwap: the pointer is stored; what Init goes on to close is
\* the logger it has just installed.
InitSwapClosesNew(p, config, t) ==
    /\ lfr[p].pc = "idle"
    /\ fr[p].pc = "idle"
    /\ lg.id <= MaxInits
    /\ LET l == NewAt(newLogger(config), lg.id + 1)
       IN /\ cpc' = [w \in Writers |-> IF w \in Range(l.writers) THEN "loop" ELSE cpc[w]]
          /\ size' = [w \in Writers |->
                        IF w \in Range(l.writers) THEN l.bufferedLines ELSE size[w]]
          /\ lg' = l
          /\ lfr' = [lfr EXCEPT ![p] = [IdleLog EXCEPT !.pc = "close", !.fidx = 1,
                                                       !.l = l,
                                                       !.snap = EnqueuedIn(l)]]
    /\ term' = t
    /\ llast' = NoLog
    /\ last' = NoCall
    /\ UNCHANGED <<ch, closing, flushed, done, closed, cdata, sink, sinkCloses, sinkErr,
                   fr, enq, wres, nextLine, dev, pcCache>>

\* Init up to old.Close(): the terminal flags are set, newLogger constructs
\* the logger and starts the consumers of its writers, and SwapPointer
\* installs it and gives the logger that was installed before.
InitSwap(p, config, t) ==
    /\ lfr[p].pc = "idle"
    /\ fr[p].pc = "idle"
    /\ lg.id <= MaxInits
    /\ LET l == NewAt(newLogger(config), lg.id + 1)
       IN /\ cpc' = [w \in Writers |-> IF w \in Range(l.writers) THEN "loop" ELSE cpc[w]]
          /\ size' = [w \in Writers |->
                        IF w \in Range(l.writers) THEN l.bufferedLines ELSE size[w]]
          /\ lg' = l
          /\ lfr' = [lfr EXCEPT ![p] = [IdleLog EXCEPT !.pc = "close", !.fidx = 1,
                                                       !.l = lg,
                                                       !.snap = EnqueuedIn(lg)]]
    /\ term' = t
    /\ llast' = NoLog
    /\ last' = NoCall
    /\ UNCHANGED <<ch, closing, flushed, done, closed, cdata, sink, sinkCloses, sinkErr,
                   fr, enq, wres, nextLine, dev, pcCache>>

\* Variant of InitClose: Close on the first of the writers only, the others
\* are passed over.
InitCloseFirstOnly(p) ==
    /\ lfr[p].pc = "close"
    /\ fr[p].pc = "idle"
    /\ lfr[p].fidx <= Len(lfr[p].l.writers)
    /\ CloseCall(p, lfr[p].l.writers[1])
    /\ lfr' = [lfr EXCEPT ![p].fidx = Len(lfr[p].l.writers) + 1]
    /\ llast' = NoLog
    /\ UNCHANGED <<nextLine, lg, term, dev, pcCache>>

\* logger.Close: w.Close() on each of the writers of the old logger in turn
InitClose(p) ==
    /\ lfr[p].pc = "close"
    /\ fr[p].pc = "idle"
    /\ lfr[p].fidx <= Len(lfr[p].l.writers)
    /\ CloseCall(p, lfr[p].l.writers[lfr[p].fidx])
    /\ lfr' = [lfr EXCEPT ![p].fidx = @ + 1]
    /\ llast' = NoLog
    /\ UNCHANGED <<nextLine, lg, term, dev, pcCache>>

\* old.Close() has returned, and Init returns.
InitReturn(p) ==
    /\ lfr[p].pc = "close"
    /\ fr[p].pc = "idle"
    /\ lfr[p].fidx > Len(lfr[p].l.writers)
    /\ lfr' = [lfr EXCEPT ![p] = IdleLog]
    /\ llast' = [op |-> "Init", level |-> 0, line |-> 0]
    /\ last' = NoCall
    /\ UNCHANGED <<writerVars, nextLine, lg, term, dev, pcCache>>

\* ------------------------------------------------------------ NewAsyncWriter
\* The writers of ws exist, each with a queue of n items and its consumer
\* started; the others do not.
InitWriters(ws, n) ==
    /\ ch = [w \in Writers |-> <<>>]
    /\ closing = [w \in Writers |-> 0]
    /\ flushed = [w \in Writers |-> 0]
    /\ done = [w \in Writers |-> FALSE]
    /\ closed = [w \in Writers |-> 0]
    /\ cpc = [w \in Writers |-> IF w \in ws THEN "loop" ELSE "none"]
    /\ cdata = [w \in Writers |-> 0]
    /\ sink = [w \in Writers |-> <<>>]
    /\ sinkCloses = [w \in Writers |-> 0]
    /\ size = [w \in Writers |-> IF w \in ws THEN n ELSE 0]
    /\ sinkErr = [w \in Writers |-> "none"]

InitCalls ==
    /\ fr = [p \in Callers |-> IdleFrame]
    /\ last = NoCall
    /\ enq = [w \in Writers |-> <<>>]
    /\ wres = [w \in Writers |-> [d \in Lines |-> "none"]]
    /\ nextLine = 1
    /\ lfr = [p \in Callers |-> IdleLog]
    /\ llast = NoLog
    /\ dev = [stdout |-> <<>>, stderr |-> <<>>]
    /\ pcCache = [n \in 0..(MaxInits + 1) |-> [pc \in Sites |-> NoStack]]

\* --------------------------------------- one AsyncWriter, concurrent callers
\* NewAsyncWriter(sink, QueueCap); the package's logger is newLogger(nil).
Init ==
    /\ InitWriters({W1}, QueueCap)
    /\ InitCalls
    /\ lg = newLogger(NilConfig)
    /\ term = [stdout |-> FALSE, stderr |-> FALSE]

\* A step of a caller inside a call.
CallStep(p) ==
    \/ WriteSelect(p)
    \/ FlushEnq(p)
    \/ FlushCheck(p)
    \/ FlushWait(p)
    \/ CloseSignal(p)
    \/ CloseWait(p)

\* A caller calls Write with nil or with a fresh line, Flush or Close.
CallerWrite(p, d) ==
    /\ d = 0 \/ (d = nextLine /\ d <= MaxLines)
    /\ WriteCall(p, W1, d)
    /\ nextLine' = IF d = 0 THEN nextLine ELSE nextLine + 1
    /\ UNCHANGED logVars

CallerFlush(p) == FlushCall(p, W1) /\ UNCHANGED <<nextLine, logVars>>

CallerClose(p) == CloseCall(p, W1) /\ UNCHANGED <<nextLine, logVars>>

CallerStep(p) == CallStep(p) /\ UNCHANGED <<nextLine, logVars>>

ConsumerStep(w) == Consumer(w) /\ UNCHANGED <<nextLine, logVars>>

\* The consumer taking the close signal.
ConsumerClosing(w) == ConsClosing(w) /\ UNCHANGED <<nextLine, logVars>>

Next ==
    \/ \E p \in Callers : \E d \in {0, nextLine} : CallerWrite(p, d)
    \/ \E p \in Callers : CallerFlush(p)
    \/ \E p \in Callers : CallerClose(p)
    \/ \E p \in Callers : CallerStep(p)
    \/ ConsumerStep(W1)

Spec == Init /\ [][Next]_vars

\* The Go scheduler runs every runnable goroutine: the consumer keeps taking
\* steps, a select with several ready cases picks each of them sooner or
\* later, and a goroutine parked on a channel is served when the channel
\* becomes ready.
Fairness ==
    /\ WF_vars(ConsumerStep(W1))
    /\ SF_vars(ConsumerClosing(W1))
    /\ \A p \in Callers : SF_vars(CallerStep(p))

FairSpec == Init /\ [][Next]_vars /\ Fairness

\* ---------------------------------------- a configured logger, goroutines logging
\* A configuration with the default LogPath.
Config(level, errorPath, errorLevel) ==
    [isNil |-> FALSE, LogPath |-> "", LogLevel |-> level, ErrorLogPath |-> errorPath,
     ErrorLogLevel |-> errorLevel, BufferedLines |-> QueueCap, PackagePrefix |-> <<>>]

\* The configurations: every level name as LogLevel with the other options
\* left empty, and every level name as ErrorLogLevel, with the error path
\* different from the log path or equal to it, under LogLevel debug.
Configs ==
    {Config(l, "", "") : l \in LevelNames}
        \cup {Config("debug", e, el) : e \in {"", DefaultLogPath}, el \in LevelNames}

\* The state after Init(config), or with the package's logger if Init was
\* never called.
LogInit ==
    /\ \E config \in Configs \cup {NilConfig} :
          /\ lg = newLogger(config)
          /\ term \in IF config.isNil THEN {[stdout |-> FALSE, stderr |-> FALSE]}
                      ELSE [stdout : BOOLEAN, stderr : BOOLEAN]
    /\ InitWriters(Range(lg.writers), lg.bufferedLines)
    /\ InitCalls

\* A step inside Write or Flush of a goroutine that is in log.
LogCallStep(p) ==
    /\ \/ WriteSelect(p)
       \/ FlushEnq(p)
       \/ FlushCheck(p)
       \/ FlushWait(p)
    /\ llast' = NoLog
    /\ UNCHANGED <<nextLine, lg, term, dev, lfr, pcCache>>

\* A step of a consumer while no writer is being closed.
LogConsumerStep(w) ==
    /\ \/ ConsRecv(w)
       \/ ConsSendFlushed(w)
       \/ ConsWrite(w)
    /\ llast' = NoLog
    /\ UNCHANGED <<nextLine, lg, term, dev, lfr, pcCache>>

LogNext ==
    \/ \E p \in LogCallers : \E level \in LogLevels : LogGate(p, level)
    \/ \E p \in LogCallers : LogCacheLoad(p)
    \/ \E p \in LogCallers : LogCacheStore(p)
    \/ \E p \in LogCallers : LogWriteAll(p)
    \/ \E p \in LogCallers : LogWriteWf(p)
    \/ \E p \in LogCallers : LogMirror(p)
    \/ \E p \in LogCallers : LogFlush(p)
    \/ \E p \in LogCallers : LogPanic(p)
    \/ \E p \in LogCallers : LogCallStep(p)
    \/ \E w \in Writers : LogConsumerStep(w)

LogSpec == LogInit /\ [][LogNext]_vars

\* ------------------------------------ the package: goroutines logging, Init
\* The first configuration: the default paths, two files, with the package's
\* path as PackagePrefix.
FirstConfig == [Config("", "", "") EXCEPT !.PackagePrefix = PkgPath]

\* The configurations Init is called with afterwards: one file for both logs.
GlobalConfigs == {Config("", DefaultLogPath, "")}

\* The level the goroutines log at: Warnf, which is routed to both files.
GlobalLevels == {LogWarn}

\* What terminal.IsTerminal gives for os.Stdout and os.Stderr: the process
\* writes to no terminal.
Terminals == {[stdout |-> FALSE, stderr |-> FALSE]}

\* The state after a first Init(FirstConfig).
GlobalInit ==
    /\ lg = newLogger(FirstConfig)
    /\ term \in Terminals
    /\ InitWriters(Range(lg.writers), lg.bufferedLines)
    /\ InitCalls

\* A goroutine logs one of the first MaxGlobalLines lines.
GlobalLog(p, level) ==
    /\ nextLine <= MaxGlobalLines
    /\ LogGate(p, level)

\* A step inside Write or Close of a goroutine that is in a call of the
\* package.
GlobalCallStep(p) ==
    /\ \/ WriteSelect(p)
       \/ CloseSignal(p)
       \/ CloseWait(p)
    /\ llast' = NoLog
    /\ UNCHANGED <<nextLine, lg, term, dev, lfr, pcCache>>

\* A step of the consumer of a writer.
GlobalConsumerStep(w) ==
    /\ Consumer(w)
    /\ llast' = NoLog
    /\ UNCHANGED <<nextLine, lg, term, dev, lfr, pcCache>>

GlobalNext ==
    \/ \E p \in Callers : \E level \in GlobalLevels : GlobalLog(p, level)
    \/ \E p \in Callers : LogCacheLoad(p)
    \/ \E p \in Callers : LogCacheStore(p)
    \/ \E p \in Callers : LogWriteAll(p)
    \/ \E p \in Callers : LogWriteWf(p)
    \/ \E p \in Callers : LogMirror(p)
    \/ \E p \in Callers : \E config \in GlobalConfigs : \E t \in Terminals :
          InitSwap(p, config, t)
    \/ \E p \in Callers : InitClose(p)
    \/ \E p \in Callers : InitReturn(p)
    \/ \E p \in Callers : GlobalCallStep(p)
    \/ \E w \in Writers : GlobalConsumerStep(w)

GlobalSpec == GlobalInit /\ [][GlobalNext]_vars

\* -------------------------------- the package: goroutines in Fatalf and Flush
\* Goroutines call Fatalf and Flush; no writer is being closed.
FatalNext ==
    \/ \E p \in Callers : GlobalLog(p, LogFatal)
    \/ \E p \in Callers : LogCacheLoad(p)
    \/ \E p \in Callers : LogCacheStore(p)
    \/ \E p \in Callers : LogWriteAll(p)
    \/ \E p \in Callers : LogWriteWf(p)
    \/ \E p \in Callers : LogMirror(p)
    \/ \E p \in Callers : LogFlush(p)
    \/ \E p \in Callers : LogPanic(p)
    \/ \E p \in Callers : GlobalFlushCall(p)
    \/ \E p \in Callers : GlobalFlushReturn(p)
    \/ \E p \in Callers : LogCallStep(p)
    \/ \E w \in Writers : LogConsumerStep(w)

\* After Init(FirstConfig), goroutines call Fatalf (and recover from its
\* panic, as doLog does) and Flush.
FatalSpec == GlobalInit /\ [][FatalNext]_vars

\* ----------------------------------------------------- claims on AsyncWriter
\* The position of x in s.
Pos(s, x) == CHOOSE i \in 1..Len(s) : s[i] = x

\* C1: when a Flush call returns without error, every line whose Write had
\* returned success before that Flush call began has been passed to the
\* sink's Write.
C1_FlushBarrier ==
    (last.op = "Flush" /\ last.err = "nil") => last.snap \subseteq Range(sink[last.w])

\* C2: every line for which Write returned success is passed to the sink's
\* Write before the sink is closed, and none remains in the queue once the
\* consumer has exited.
C2_CloseNeverDrops ==
    \A w \in Writers :
        /\ sinkCloses[w] > 0 => Accepted(w) \subseteq Range(sink[w])
        /\ cpc[w] = "exited" => Queued(w) \cap Accepted(w) = {}

\* C3: Write never blocks: whatever the queue, the consumer and the other
\* callers are doing, a caller can start a Write, and a caller inside Write
\* can take its next step, which returns.
C3_WriteNeverBlocks ==
    \A p \in Callers :
        /\ fr[p].pc = "idle" => ENABLED CallerWrite(p, 0)
        /\ fr[p].pc = "w_select" => ENABLED CallerStep(p)

C3_Witness ==
    \E p \in Callers :
        /\ fr[p].pc = "w_select"
        /\ Len(ch[W1]) = size[W1]
        /\ cpc[W1] \in {"write", "drain_write"}

\* C4: the lines reach the sink in the order in which they were sent on the
\* queue, the lines of the final drain pass included.
C4_FIFO ==
    \A w \in Writers : \A i, j \in 1..Len(sink[w]) :
        i < j => Pos(enq[w], sink[w][i]) < Pos(enq[w], sink[w][j])

C4_Witness ==
    /\ Len(sink[W1]) >= 2
    /\ closed[W1] = 1
    /\ enq[W1][1] > enq[W1][2]

\* C5: the select of Write on a full queue returns the full error with
\* written = 0 and leaves the queue as it is, and the line is never sent on
\* the queue later; on a queue with room it returns success with
\* written = len(data) and appends exactly that line at the tail.
C5_DropWhenFull ==
    [][/\ \A p \in Callers :
             (fr[p].pc = "w_select" /\ fr'[p].pc = "idle") =>
                 IF Len(ch[fr[p].w]) >= size[fr[p].w]
                 THEN /\ last'.err = "full"
                      /\ last'.written = 0
                      /\ ch' = ch
                 ELSE /\ last'.err = "nil"
                      /\ last'.written = LenOf(fr[p].data)
                      /\ ch' = [ch EXCEPT ![fr[p].w] = Append(@, fr[p].data)]
       /\ \A w \in Writers : \A d \in Lines :
             wres'[w][d] = "full" => d \notin Range(enq'[w]) \cup Range(ch'[w])]_vars

C5_Witness ==
    /\ last.op = "Write"
    /\ last.err = "full"
    /\ Len(ch[W1]) = size[W1]
    /\ closed[W1] = 0

\* C6: once the closed flag is set, no Write returns success or appends to
\* the queue.
C6_ClosedAcceptsNothing ==
    (last.op = "Write" /\ last.err = "nil" /\ last.written > 0) => closed[last.w] = 0

\* C7: a Close call that found the writer open returns only after the
\* consumer has passed to the sink every line that was queued when Close was
\* called, has closed the sink and has terminated.
C7_CloseDrains ==
    (last.op = "Close" /\ last.found = "open") =>
        /\ last.snap \subseteq Range(sink[last.w])
        /\ sinkCloses[last.w] = 1
        /\ cpc[last.w] = "exited"

C7_Witness ==
    /\ last.op = "Close"
    /\ last.found = "open"
    /\ last.snap # {}

\* C8 as stated: a Close call that found the writer closed or closing can
\* always take its next step (it waits for nobody), and the sink is closed at
\* most once.
C8_CloseReturnsAtOnce ==
    /\ \A w \in Writers : sinkCloses[w] <= 1
    /\ \A p \in Callers :
          (fr[p].pc \in {"c_signal", "c_wait"} /\ fr[p].found \in {"closing", "closed"})
              => ENABLED CallerStep(p)

\* C8 as amended: a Close call that finds the closed flag set returns success
\* in that step; one that finds it clear returns only once the sink has been
\* closed; the sink is closed at most once.
C8_CloseIdempotent ==
    /\ \A w \in Writers : sinkCloses[w] <= 1
    /\ \A p \in Callers : fr[p].pc \in {"c_signal", "c_wait"} => fr[p].found # "closed"
    /\ last.op = "Close" =>
          /\ last.err = "nil"
          /\ last.found # "closed" => sinkCloses[last.w] = 1

C8_Witness ==
    /\ last.op = "Close"
    /\ last.found = "closed"
    /\ \E p \in Callers : fr[p].pc = "c_wait" /\ fr[p].found = "closing"

\* C9: under fair scheduling every Flush call and every Close call returns.
C9_NoDeadlock ==
    \A p \in Callers :
        (fr[p].pc \in {"f_enq", "f_check", "f_wait", "c_signal", "c_wait"})
            ~> (fr[p].pc = "idle")

C9_Witness ==
    /\ cpc[W1] = "send_flushed"
    /\ flushed[W1] = SignalCap
    /\ \E p \in Callers : fr[p].pc = "f_wait"

\* ------------------------------------------------------ claims on the logger
\* The severity ordering, most severe first: Fatal, Error, Warn, Trace, Info,
\* Debug.
Rank(S) ==
    CASE S = LogFatal -> 0
      [] S = LogError -> 1
      [] S = LogWarn -> 2
      [] S = LogTrace -> 3
      [] S = LogInfo -> 4
      [] S = LogDebug -> 5

\* A record at S is to be emitted under threshold T: S is Printf's level, or
\* S is at least as severe as T.
ShouldEmit(S, T) == S = logPrint \/ Rank(S) <= Rank(T)

\* C10: under a configured threshold T, log emits a record at severity S iff S
\* is at least as severe as T or S is Printf's level (so Fatal and Printf's
\* records always); a rejected record causes no write to any sink, no flush
\* and no panic.
C10_LevelGate ==
    [][lg.maxLevel \in Severities =>
          /\ llast'.op = "reject" =>
                /\ ~ShouldEmit(llast'.level, lg.maxLevel)
                /\ UNCHANGED <<writerVars, dev, lfr>>
          /\ \A p \in LogCallers :
                (lfr[p].pc = "idle" /\ lfr'[p].pc # "idle") =>
                    /\ ShouldEmit(lfr'[p].level, lg.maxLevel)
                    /\ lfr'[p].pc = IF lfr'[p].level = logPrint THEN "write_all"
                                    ELSE "load"]_vars

C10_Witness ==
    /\ llast.op = "reject"
    /\ llast.level = LogTrace
    /\ lg.maxLevel = LogWarn
    /\ Len(sink[1]) > 0
    /\ Len(sink[2]) > 0

\* C11: on a logger with two distinct writers, when a log call ends, Write
\* was called with its line on the primary writer, and on the error writer
\* iff its level is not Printf's and is at least as severe as the error
\* threshold: under the default threshold, for Warn, Error and Fatal only.
C11_Routing ==
    (llast.op \in {"done", "panic"} /\ lg.wf = AsyncSink(2)) =>
        /\ wres[1][llast.line] # "none"
        /\ wres[2][llast.line] # "none" <=>
              (llast.level # logPrint /\ Rank(llast.level) <= Rank(lg.errorLevel))
        /\ lg.errorLevel = parseLevel(DefaultErrorLogLevel) =>
              (wres[2][llast.line] # "none" <=>
                  llast.level \in {LogWarn, LogError, LogFatal})

C11_Witness ==
    /\ lg.wf = AsyncSink(2)
    /\ lg.errorLevel = LogError
    /\ llast.op = "done"
    /\ llast.level = logPrint
    /\ wres[1][llast.line] = "ok"
    /\ \E d \in Lines : wres[2][d] = "ok"

\* The number of times line d was sent on the queue of writer w.
Sends(w, d) == Cardinality({i \in 1..Len(enq[w]) : enq[w][i] = d})

\* C16: a logger whose error path equals its primary path owns exactly one
\* AsyncWriter, no second one exists, and no line is sent on its queue more
\* than once: a record routed to both sinks that the writer accepted is in
\* the queue's history exactly once.
C16_AliasedWriteOnce ==
    (lg.all.kind = "async" /\ lg.wf = lg.all) =>
        /\ Len(lg.writers) = 1
        /\ cpc[2] = "none"
        /\ \A d \in Lines : Sends(1, d) <= 1 /\ wres[2][d] = "none"
        /\ (llast.op \in {"done", "panic"} /\ wres[1][llast.line] = "ok") =>
              Sends(1, llast.line) = 1

C16_Witness ==
    /\ lg.all.kind = "async"
    /\ lg.wf = lg.all
    /\ llast.op = "done"
    /\ llast.level = LogError
    /\ lg.errorLevel = LogWarn
    /\ wres[1][llast.line] = "ok"

\* The number of zero-length items in a queue.
Zeros(q) == Cardinality({i \in 1..Len(q) : LenOf(q[i]) = 0})

\* C20: a Write of empty data returns success and leaves the queue as it is;
\* a zero-length item enters a queue only by the send of a Flush call; the
\* sink is never given a zero-length item; and the consumer goes to signal
\* flushed only on receiving a zero-length item.
C20_SentinelsInternal ==
    [][/\ (last'.op = "Write" /\ LenOf(last'.data) = 0) =>
             (last'.err = "nil" /\ last'.written = 0 /\ ch' = ch /\ enq' = enq)
       /\ \A w \in Writers :
             /\ Zeros(ch'[w]) > Zeros(ch[w]) =>
                   \E p \in Callers :
                       fr[p].pc = "f_enq" /\ fr[p].w = w /\ fr'[p].pc = "f_check"
             /\ \A i \in 1..Len(sink'[w]) : LenOf(sink'[w][i]) > 0
             /\ (cpc'[w] = "send_flushed" /\ cpc[w] # "send_flushed") =>
                   (Len(ch[w]) > 0 /\ LenOf(Head(ch[w])) = 0 /\ ch'[w] = Tail(ch[w]))
             /\ flushed'[w] > flushed[w] => cpc[w] = "send_flushed"]_vars

C20_Witness ==
    /\ last.op = "Write"
    /\ LenOf(last.data) = 0
    /\ last.err = "nil"
    /\ cpc[W1] = "drain"
    /\ Len(ch[W1]) > 0
    /\ Head(ch[W1]) = 0
    /\ Len(sink[W1]) > 0

\* C17 as stated: a Flush call that found the closed flag clear when it began
\* returns no error, whatever overtakes it.
C17_FlushErrorOnlyAtStart ==
    [][\A p \in Callers :
          (fr[p].pc \in {"f_enq", "f_check", "f_wait"} /\ fr'[p].pc = "idle") =>
              last'.err = "nil"]_vars

\* C17 as amended: a Flush call returns the closed error only while the writer
\* is Closed and before it has sent its sentinel: at its start, or at the
\* first select once done is closed; a call that has sent its sentinel
\* returns no error.
C17_FlushErrorBeforeSend ==
    [][/\ \A p \in Callers :
             /\ (fr[p].pc \in {"f_check", "f_wait"} /\ fr'[p].pc = "idle") =>
                   last'.err = "nil"
             /\ (fr[p].pc = "f_enq" /\ fr'[p].pc = "idle") =>
                   (last'.err = "closed" /\ done[fr[p].w] /\ ch' = ch)
       /\ (last'.op = "Flush" /\ last'.err = "closed") => closed'[last'.w] = 1]_vars

C17_Witness ==
    /\ last.op = "Flush"
    /\ last.err = "closed"
    /\ last.snap # Accepted(last.w)
    /\ done[last.w]

\* C18: when the underlying writer's Close returned an error, the Close call
\* that triggered the shutdown returns that error, and so does a Flush call
\* that was waiting and is unblocked by the end of the shutdown.
C18_CloseErrorPropagates ==
    [][/\ (last'.op = "Close" /\ last'.found = "open" /\ sinkErr'[last'.w] = "error")
             => last'.err = "error"
       /\ \A p \in Callers :
             (/\ fr[p].pc = "f_wait"
              /\ fr'[p].pc = "idle"
              /\ flushed[fr[p].w] = 0
              /\ sinkErr[fr[p].w] = "error") => last'.err = "error"]_vars

\* ------------------------------------------------- claims on Fatalf and Init
\* C12: when a Fatal record is logged, the panic occurs only after the write
\* was issued and the flush of all owned writers returned, and by then the
\* Fatal line accepted by each writer it was routed to has been passed to
\* that writer's sink, also while other goroutines log or call Flush.
C12_FatalFlushThenAbort ==
    [][\A p \in Callers :
          (lfr[p].pc = "flush" /\ lfr'[p].pc = "idle") =>
              /\ llast' = [op |-> "panic", level |-> LogFatal, line |-> lfr[p].line]
              /\ lfr[p].fidx > Len(lfr[p].l.writers)
              /\ \A w \in Range(lfr[p].l.writers) :
                    wres[w][lfr[p].line] = "ok" => lfr[p].line \in Range(sink'[w])]_vars

\* The logger that constructed writer w: the n-th logger owns writers 2n-1
\* and 2n.
OwnerOf(w) == (w + 1) \div 2

\* The writers of the loggers that an Init has superseded.
Superseded == {w \in Writers : cpc[w] # "none" /\ OwnerOf(w) < lg.id}

\* The goroutines in Init's old.Close() whose old logger owns writer w.
Closers(w) == {p \in Callers : lfr[p].pc = "close" /\ w \in Range(lfr[p].l.writers)}

\* C13: under any interleaving of Init calls with logging calls, every line
\* enqueued in a writer of a superseded logger before the pointer swap has been
\* passed to that writer's sink when Init returns; Close of a logger is invoked
\* only after the swap that superseded it; and each superseded writer is
\* closed exactly once: one Init closes it, its sink is closed once, and when
\* that Init returns it is Closed.
C13_ReconfigLosesNothing ==
    /\ [](\A w \in Writers :
             /\ sinkCloses[w] <= 1
             /\ Cardinality(Closers(w)) <= 1
             /\ (Closers(w) # {} \/ closing[w] > 0 \/ closed[w] # 0 \/ done[w])
                    => w \in Superseded
             /\ w \in Superseded
                    => Closers(w) # {} \/ (done[w] /\ closed[w] # 0 /\ sinkCloses[w] = 1))
    /\ [][\A p \in Callers :
             (lfr[p].pc = "close" /\ lfr'[p].pc = "idle") =>
                 /\ \A e \in lfr[p].snap : e[2] \in Range(sink'[e[1]])
                 /\ \A w \in Range(lfr[p].l.writers) :
                       done'[w] /\ closed'[w] # 0 /\ sinkCloses'[w] = 1]_vars

\* Two Init calls have returned, and a superseded writer that held a line in
\* its queue at the swap has passed it to its sink.
C13_Witness ==
    /\ llast.op = "Init"
    /\ lg.id = MaxInits + 1
    /\ \A w \in Superseded : done[w] /\ sinkCloses[w] = 1
    /\ \E w \in Superseded : sink[w] # <<>> /\ OwnerOf(w) = 2
    /\ \E w \in Superseded : sink[w] # <<>> /\ OwnerOf(w) = 1

\* C14: when Init returns, every writer of the superseded logger has passed
\* all its accepted lines to its sink and closed it, so that the lines logged
\* through the old logger are in the sink before any line logged through the
\* new logger after Init returned.
C14_InitDrainsOld ==
    [][\A p \in Callers :
          (lfr[p].pc = "close" /\ lfr'[p].pc = "idle") =>
              \A w \in Range(lfr[p].l.writers) :
                  /\ sinkCloses'[w] = 1
                  /\ \A d \in Lines : wres'[w][d] = "ok" => d \in Range(sink'[w])]_vars

\* The consumer of writer w is started and has not begun a shutdown.
Running(w) == cpc[w] \in {"loop", "send_flushed", "write"}

\* C15: in every reachable state, under any interleaving of Init calls and
\* logging calls, the package's logger pointer refers to a fully constructed
\* logger (its sinks are its own writers, each with its queue and a running
\* consumer) on which Close has not been invoked: no Init is closing it, and
\* none of its writers has been signalled, closed or shut down.
C15_GlobalLoggerUsable ==
    /\ lg.id \in 1..(MaxInits + 1)
    /\ lg.writers # <<>>
    /\ {lg.all.w, lg.wf.w} = Range(lg.writers)
    /\ \A p \in Callers : lfr[p].pc = "close" => lfr[p].l # lg
    /\ \A w \in Range(lg.writers) :
          /\ OwnerOf(w) = lg.id
          /\ Running(w)
          /\ size[w] = lg.bufferedLines
          /\ closing[w] = 0 /\ closed[w] = 0 /\ ~done[w] /\ sinkCloses[w] = 0

\* A second Init is closing the logger it superseded, whose first writer has
\* shut down, while another goroutine logs on the logger it installed.
C15_Witness ==
    /\ lg.id = MaxInits + 1
    /\ \E p \in Callers : lfr[p].pc = "close" /\ lfr[p].l.id = MaxInits
    /\ \E p \in Callers : lfr[p].pc = "mirror_err" /\ lfr[p].l = lg
    /\ \E w \in Superseded : OwnerOf(w) = MaxInits /\ done[w]
    /\ \E w \in Range(lg.writers) : ch[w] # <<>>

\* ------------------------------------------------ claims on the call-site cache
\* The goroutines in log that hold a stack for a program location.
WithStack == {p \in Callers : lfr[p].site # 0 /\ lfr[p].st # NoStack}

\* C19: for one logger, under concurrent first use of one program location
\* by several callers, every value stored in or read from the cache for that
\* location is the same rendering, the one parsePC gives; an entry, once
\* stored, is never replaced by a different value and never removed.
C19_CacheConsistent ==
    /\ [](\A p \in WithStack :
             /\ lfr[p].st = parsePC(lfr[p].site, lfr[p].l.pkgPrefix)
             /\ pcCache[lfr[p].l.id][lfr[p].site] \in {NoStack, lfr[p].st}
             /\ \A q \in WithStack :
                   (lfr[q].l.id = lfr[p].l.id /\ lfr[q].site = lfr[p].site)
                       => lfr[q].st = lfr[p].st)
    /\ [][\A n \in DOMAIN pcCache : \A pc \in Sites :
             pcCache[n][pc] # NoStack => pcCache'[n][pc] = pcCache[n][pc]]_vars

\* Two goroutines missed the cache of one logger at the same location; one
\* has stored its stack and the other is about to store.
C19_Witness ==
    \E p \in Callers : \E q \in Callers \ {p} :
        /\ lfr[p].pc = "store"
        /\ lfr[q].pc \in {"write_all", "write_wf", "mirror_err"}
        /\ lfr[q].l.id = lfr[p].l.id /\ lfr[q].site = lfr[p].site
        /\ pcCache[lfr[p].l.id][lfr[p].site] # NoStack
        /\ lfr[p].l.id = 2

\* ------------------------------------------ claims on the logger of newLogger(nil)
\* C21: the logger created with no configuration emits every severity and
\* routes as a configured logger with the default thresholds does: a record
\* of any level is written to the stdout sink, a Warn, Error or Fatal record
\* to the stderr sink as well, and a Debug, Info, Trace or Print record to
\* the stdout sink only.
C21_NilLoggerRouting ==
    lg = newLogger(NilConfig) =>
        /\ llast.op # "reject"
        /\ llast.op \in {"done", "panic"} =>
              /\ llast.line \in Range(dev["stdout"])
              /\ llast.line \in Range(dev["stderr"])
                    <=> llast.level \in {LogWarn, LogError, LogFatal}
====
